---------------------------- MODULE Spec2Model ----------------------------
(***************************************************************************)
(* Model of the AsianOptionMC class of MC_Control_Varaite.ipynb: the       *)
(* constructor with its validation, the four read-only properties          *)
(* (GeometricAsianOption, price_path, value, value_with_control_variate),  *)
(* the helper property MCPayoff, and numpy's shared pseudo-random          *)
(* generator.                                                              *)
(*                                                                         *)
(* Floating point.  A float is modelled on a coarse grid: a finite value   *)
(* is an integer n standing for n/Q, with |n| <= FMax; a result beyond     *)
(* FMax overflows to an infinity, and NaN is a value of its own, as in     *)
(* IEEE-754.  Every operation rounds to the nearest grid point.  What      *)
(* Python raises (float division by zero, overflow of a power) and what    *)
(* numpy returns silently (inf, nan) are kept apart.                       *)
(***************************************************************************)
EXTENDS Integers, Sequences, FiniteSets, TLC

\* ------------------------------------------------------------------------
\* The float format
\* ------------------------------------------------------------------------

\* grid step: the finite float n stands for n/Q
Q == 4
\* largest finite float (in grid steps)
FMax == 256

PInf == FMax + 1
NInf == 0 - (FMax + 1)
NaN == FMax + 2

IsFinite(x) == x >= 0 - FMax /\ x <= FMax
IsInf(x) == x = PInf \/ x = NInf

\* overflow of a finite result to an infinity
Norm(n) == IF n > FMax THEN PInf ELSE IF n < 0 - FMax THEN NInf ELSE n

\* n/d rounded to the nearest integer (d > 0)
Rnd(n, d) == (2 * n + d) \div (2 * d)

Sign(x) == IF x > 0 THEN 1 ELSE IF x < 0 THEN 0 - 1 ELSE 0

\* the float of a Python int
IntToFloat(i) == Norm(i * Q)

\* int(x) of a finite float: truncation toward zero
PyInt(x) == IF x >= 0 THEN x \div Q ELSE 0 - ((0 - x) \div Q)

FNeg(a) == IF a = NaN THEN NaN ELSE 0 - a

FAdd(a, b) ==
    IF a = NaN \/ b = NaN THEN NaN
    ELSE IF IsInf(a) THEN (IF IsInf(b) /\ b # a THEN NaN ELSE a)
    ELSE IF IsInf(b) THEN b
    ELSE Norm(a + b)

FSub(a, b) == FAdd(a, FNeg(b))

FMul(a, b) ==
    IF a = NaN \/ b = NaN THEN NaN
    ELSE IF IsInf(a) \/ IsInf(b)
         THEN (IF a = 0 \/ b = 0 THEN NaN
               ELSE IF Sign(a) * Sign(b) > 0 THEN PInf ELSE NInf)
    ELSE Norm(Rnd(a * b, Q))

\* a / b as numpy computes it: division by zero gives inf or nan (a warning,
\* no exception)
NpDiv(a, b) ==
    IF a = NaN \/ b = NaN THEN NaN
    ELSE IF b = 0 THEN (IF a = 0 THEN NaN ELSE IF a > 0 THEN PInf ELSE NInf)
    ELSE IF IsInf(a) THEN (IF IsInf(b) THEN NaN
                           ELSE IF Sign(a) * Sign(b) > 0 THEN PInf ELSE NInf)
    ELSE IF IsInf(b) THEN 0
    ELSE IF b > 0 THEN Norm(Rnd(a * Q, b))
    ELSE Norm(Rnd((0 - a) * Q, 0 - b))

\* a / b on Python floats, b # 0 (b = 0 raises ZeroDivisionError: the callers
\* test it before they divide)
PyDiv(a, b) == NpDiv(a, b)

\* the square (sigma to the power 2) of a Python float raises OverflowError when a finite a overflows
PowOverflows(a) == IsFinite(a) /\ Rnd(a * a, Q) > FMax
PyPow2(a) == IF a = NaN THEN NaN ELSE IF IsInf(a) THEN PInf ELSE Norm(Rnd(a * a, Q))

\* a < b, a <= b on floats: False when either is NaN
FLt(a, b) == a # NaN /\ b # NaN /\ a < b
FLe(a, b) == a # NaN /\ b # NaN /\ a <= b

\* np.maximum(a, b): NaN propagates
NpMaximum(a, b) == IF a = NaN \/ b = NaN THEN NaN ELSE IF a >= b THEN a ELSE b

\* np.abs
NpAbs(a) == IF a = NaN THEN NaN ELSE IF a < 0 THEN 0 - a ELSE a

\* np.exp on the grid: round(Q * exp(a/Q)) for a = -8 .. 21
ExpTable == <<1, 1, 1, 1, 1, 2, 2, 3, 4, 5, 7, 8, 11, 14, 18, 23, 30, 38, 49,
              63, 80, 103, 132, 170, 218, 280, 360, 462, 594, 762>>
NpExp(a) ==
    IF a = NaN THEN NaN
    ELSE IF a = PInf THEN PInf
    ELSE IF a < 0 - 8 THEN 0
    ELSE IF a > 21 THEN PInf
    ELSE Norm(ExpTable[a + 9])

\* np.log on the grid: LogThreshold[i] is the least x with
\* round(Q * ln(x/Q)) >= LogValue[i]
LogThreshold == <<1, 2, 3, 4, 5, 6, 8, 10, 13, 16, 21, 27, 34, 44, 56, 71, 92,
                  117, 151, 193, 248, 318>>
LogValue == <<0 - 6, 0 - 3, 0 - 1, 0, 1, 2, 3, 4, 5, 6, 7, 8, 9, 10, 11, 12, 13,
              14, 15, 16, 17, 18>>
NpLog(x) ==
    IF x = NaN \/ x < 0 THEN NaN
    ELSE IF x = 0 THEN NInf
    ELSE IF x = PInf THEN PInf
    ELSE LET ok == {i \in 1..Len(LogThreshold) : LogThreshold[i] <= x}
             top == CHOOSE i \in ok : \A j \in ok : j <= i
         IN  LogValue[top]

\* np.sqrt on the grid: the integer nearest to sqrt(Q * x); nan below zero
RECURSIVE NearestRoot(_, _)
NearestRoot(n, s) ==
    IF (2 * s + 1) * (2 * s + 1) <= n THEN NearestRoot(n, s + 1) ELSE s
NpSqrt(x) ==
    IF x = NaN \/ x < 0 THEN NaN
    ELSE IF x = PInf THEN PInf
    ELSE NearestRoot(4 * Q * x, 0)

\* scipy.special.erf on the grid: round(Q * erf(a/Q)), an odd function
ErfTable == <<0, 1, 2, 3, 3>>
Erf(a) ==
    IF a = NaN THEN NaN
    ELSE LET m == IF a < 0 THEN 0 - a ELSE a
             v == IF m >= 5 THEN Q ELSE ErfTable[m + 1]
         IN  IF a < 0 THEN 0 - v ELSE v

\* ------------------------------------------------------------------------
\* Python values passed to the constructor
\* ------------------------------------------------------------------------

\* a number (int or float) of value v/Q
Num(v) == [k |-> "num", v |-> v]
\* a string that is no number, such as 'abc'
Str == [k |-> "str", v |-> 0]
\* a string that spells the number v/Q, such as '2'
NumStr(v) == [k |-> "numstr", v |-> v]
\* None
None == [k |-> "none", v |-> 0]

\* an option_type argument that is not a string (5, None, ...)
NonString == "<not a str>"

\* what float(x) raises
FloatErr(x) ==
    IF x.k = "str" THEN "ValueError"
    ELSE IF x.k = "none" THEN "TypeError"
    ELSE "none"

\* what int(x) raises: int('2.5') is a ValueError as int('abc') is
IntErr(x) ==
    IF x.k = "str" THEN "ValueError"
    ELSE IF x.k = "none" THEN "TypeError"
    ELSE IF x.k = "numstr" /\ x.v % Q # 0 THEN "ValueError"
    ELSE "none"

\* float(x), int(x) where they raise nothing
FloatOf(x) == x.v
IntOf(x) == PyInt(x.v)

\* x < 0 and x <= 0 on the raw argument: a str or None against an int is a
\* TypeError
CmpErr(x) == IF x.k = "num" THEN "none" ELSE "TypeError"

\* the attributes the try block assigns, in its order
Attrs == <<"S0", "strike", "T", "M", "r", "div", "sigma", "simulations">>
IntAttrs == {"M", "simulations"}

ConvErr(a, i) ==
    IF Attrs[i] \in IntAttrs THEN IntErr(a[Attrs[i]]) ELSE FloatErr(a[Attrs[i]])

\* the first assignment of the try block that raises (9: none does)
FirstBad(a) ==
    LET bad == {i \in 1..Len(Attrs) : ConvErr(a, i) # "none"}
    IN  IF bad = {} THEN Len(Attrs) + 1
        ELSE CHOOSE i \in bad : \A j \in bad : i <= j

\* the attributes set when the try block is left
AttrsSet(a) == {"option_type"} \cup {Attrs[i] : i \in 1..(FirstBad(a) - 1)}

\* the value the try block gives an attribute (0 stands for "not set")
AttrValue(a, n) ==
    IF n \notin AttrsSet(a) THEN 0
    ELSE IF n \in IntAttrs THEN IntOf(a[n]) ELSE FloatOf(a[n])

\* line 93: S0 < 0 or strike < 0 or T <= 0 or r < 0 or div < 0 or sigma < 0,
\* on the raw arguments, left to right, stopping at the first that is true or
\* raises
Checked == <<"S0", "strike", "T", "r", "div", "sigma">>
RECURSIVE RangeCheck(_, _)
RangeCheck(a, i) ==
    IF i > Len(Checked) THEN "none"
    ELSE LET x == a[Checked[i]]
         IN  IF CmpErr(x) # "none" THEN CmpErr(x)
             ELSE IF x.v < 0 \/ (Checked[i] = "T" /\ x.v = 0) THEN "ValueError"
             ELSE RangeCheck(a, i + 1)

\* the error __init__ raises ("none": it returns)
InitError(a) ==
    IF a.option_type = NonString THEN "AssertionError"
    ELSE IF FirstBad(a) <= Len(Attrs) /\ ConvErr(a, FirstBad(a)) = "TypeError"
         THEN "TypeError"
    ELSE IF a.option_type # "call" /\ a.option_type # "put" THEN "ValueError"
    ELSE IF RangeCheck(a, 1) # "none" THEN RangeCheck(a, 1)
    ELSE IF "T" \notin AttrsSet(a) \/ "M" \notin AttrsSet(a) THEN "AttributeError"
    ELSE IF IntToFloat(AttrValue(a, "M")) = 0 THEN "ZeroDivisionError"
    ELSE IF "r" \notin AttrsSet(a) THEN "AttributeError"
    ELSE "none"

\* the object __init__ leaves behind when it raises nothing
InitObject(a) ==
    [option_type |-> a.option_type,
     S0          |-> AttrValue(a, "S0"),
     strike      |-> AttrValue(a, "strike"),
     T           |-> AttrValue(a, "T"),
     M           |-> AttrValue(a, "M"),
     r           |-> AttrValue(a, "r"),
     div         |-> AttrValue(a, "div"),
     sigma       |-> AttrValue(a, "sigma"),
     simulations |-> AttrValue(a, "simulations"),
     time_unit   |-> PyDiv(AttrValue(a, "T"), IntToFloat(AttrValue(a, "M"))),
     discount    |-> NpExp(FMul(FNeg(AttrValue(a, "r")), AttrValue(a, "T"))),
     attrs       |-> AttrsSet(a) \cup {"time_unit", "discount"}]

\* no object: what the caller holds before, or instead of, a contract
NoObject ==
    [option_type |-> "", S0 |-> 0, strike |-> 0, T |-> 0, M |-> 0, r |-> 0,
     div |-> 0, sigma |-> 0, simulations |-> 0, time_unit |-> 0,
     discount |-> 0, attrs |-> {}]

\* ------------------------------------------------------------------------
\* numpy's shared pseudo-random generator
\* ------------------------------------------------------------------------

\* The generator is a position in a fixed cyclic stream of RngMod deviates
\* (MT19937 has a period of 2^19937 - 1).
RngMod == 5
\* the seed price_path passes when it is read as a property
DefaultSeed == 100

\* np.random.seed(seed) called in state g: the state depends on the seed alone
NpRandomSeed_Skipped(g, seed) == g
NpRandomSeed(g, seed) == seed % RngMod

\* the state after one draw
NextRng(g) == (g + 1) % RngMod

\* the standard normal deviate drawn in state g
NormalTable == <<0 - Q, 0, Q, Q \div 2, 0 - (Q \div 2)>>
Normal(g) == NormalTable[g + 1]

\* the state after n draws
RECURSIVE RngAfter(_, _)
RngAfter(g, n) == IF n <= 0 THEN g ELSE RngAfter(NextRng(g), n - 1)

\* np.random.randn(rows, cols) in state g: a rows x cols matrix, filled row
\* by row
Randn(g, rows, cols) ==
    [i \in 1..rows |-> [j \in 1..cols |-> Normal(RngAfter(g, (i - 1) * cols + j - 1))]]

\* ------------------------------------------------------------------------
\* numpy on vectors and matrices
\* ------------------------------------------------------------------------

RECURSIVE SumTo(_, _)
SumTo(v, n) == IF n = 0 THEN 0 ELSE FAdd(SumTo(v, n - 1), v[n])
\* np.sum of a vector
NpSum(v) == SumTo(v, Len(v))

\* np.mean of a vector: nan (and a warning) when it is empty
NpMean(v) == NpDiv(NpSum(v), IntToFloat(Len(v)))

\* np.std of a vector: sqrt(mean(abs(x - mean) ** 2))
NpStd(v) ==
    LET m == NpMean(v)
        sq == [i \in 1..Len(v) |-> FMul(NpAbs(FSub(v[i], m)), NpAbs(FSub(v[i], m)))]
    IN  NpSqrt(NpMean(sq))

RECURSIVE ProdTo(_, _)
ProdTo(v, n) == IF n = 1 THEN v[1] ELSE FMul(ProdTo(v, n - 1), v[n])
\* np.cumprod along a row
NpCumprod(v) == [j \in 1..Len(v) |-> ProdTo(v, j)]

\* ------------------------------------------------------------------------
\* The properties of AsianOptionMC.  Each takes the object and the generator
\* state and returns the exception raised ("none": a value is returned), the
\* value, and the generator state it leaves.
\* ------------------------------------------------------------------------

Half == Q \div 2
One == Q

\* self.<name> of an attribute never set raises AttributeError
Missing(o, names) == names \ o.attrs # {}

\* (self.sigma ** 2 * self.T * (self.M + 1) * (2 * self.M + 1)) / (6 * self.M * self.M)
SigSqT(o) ==
    PyDiv(FMul(FMul(FMul(PyPow2(o.sigma), o.T), IntToFloat(o.M + 1)),
               IntToFloat(2 * o.M + 1)),
          IntToFloat(6 * o.M * o.M))

\* 0.5 * sigsqT + (self.r - 0.5 * self.sigma ** 2) * self.T * (self.M + 1) / (2 * self.M)
MuT(o) ==
    FAdd(FMul(Half, SigSqT(o)),
         PyDiv(FMul(FMul(FSub(o.r, FMul(Half, PyPow2(o.sigma))), o.T),
                    IntToFloat(o.M + 1)),
               IntToFloat(2 * o.M)))

\* 0.5 * (1 + erf(d / np.sqrt(2)))
NormalCdf(d) == FMul(Half, FAdd(One, Erf(NpDiv(d, NpSqrt(2 * Q)))))

GeometricValue(o) ==
    LET sigsqT == SigSqT(o)
        muT == MuT(o)
        d1 == NpDiv(FAdd(NpLog(PyDiv(o.S0, o.strike)), FAdd(muT, FMul(Half, sigsqT))),
                    NpSqrt(sigsqT))
        d2 == FSub(d1, NpSqrt(sigsqT))
    IN  FMul(o.discount,
             FSub(FMul(FMul(o.S0, NpExp(muT)), NormalCdf(d1)),
                  FMul(o.strike, NormalCdf(d2))))

GeometricAsianOption_BySimulations(o, g) ==
    [err |-> "none", val |-> FMul(GeometricValue(o), IntToFloat(o.simulations)), rng |-> g]
GeometricAsianOption(o, g) ==
    IF Missing(o, {"sigma", "T", "M", "r", "S0", "strike", "discount"})
    THEN [err |-> "AttributeError", val |-> 0, rng |-> g]
    ELSE IF PowOverflows(o.sigma) THEN [err |-> "OverflowError", val |-> 0, rng |-> g]
    ELSE IF o.strike = 0 THEN [err |-> "ZeroDivisionError", val |-> 0, rng |-> g]
    ELSE [err |-> "none", val |-> GeometricValue(o), rng |-> g]

\* (self.r - 0.5 * self.sigma ** 2) * self.time_unit
Drift_WithDividend(o) ==
    FMul(FSub(FSub(o.r, o.div), FMul(Half, PyPow2(o.sigma))), o.time_unit)
Drift(o) == FMul(FSub(o.r, FMul(Half, PyPow2(o.sigma))), o.time_unit)

\* the matrix price_path builds from the draws z
PathMatrix(o, z) ==
    LET vol == FMul(o.sigma, NpSqrt(o.time_unit))
        growth == [i \in 1..Len(z) |->
                     [j \in 1..Len(z[i]) |-> NpExp(FAdd(Drift(o), FMul(vol, z[i][j])))]]
    IN  [i \in 1..Len(z) |->
           LET c == NpCumprod(growth[i])
           IN  [j \in 1..Len(c) |-> FMul(o.S0, c[j])]]

\* price_path: the generator is seeded first; the operands are then read left
\* to right, so an exception leaves the generator seeded and nothing drawn
price_path(o, g) ==
    LET s == NpRandomSeed(g, DefaultSeed)
    IN  IF Missing(o, {"S0", "r", "sigma", "time_unit"})
        THEN [err |-> "AttributeError", val |-> <<>>, rng |-> s]
        ELSE IF PowOverflows(o.sigma)
        THEN [err |-> "OverflowError", val |-> <<>>, rng |-> s]
        ELSE IF Missing(o, {"simulations", "M"})
        THEN [err |-> "AttributeError", val |-> <<>>, rng |-> s]
        ELSE IF o.simulations < 0 \/ o.M < 0
        THEN [err |-> "ValueError", val |-> <<>>, rng |-> s]
        ELSE [err |-> "none",
              val |-> PathMatrix(o, Randn(s, o.simulations, o.M)),
              rng |-> RngAfter(s, o.simulations * o.M)]

\* the arithmetic payoff of each path of a matrix
ArithmeticPayoff(o, path) ==
    [i \in 1..Len(path) |->
       IF o.option_type = "call"
       THEN FMul(o.discount, NpMaximum(FSub(NpMean(path[i]), o.strike), 0))
       ELSE FMul(o.discount, NpMaximum(FSub(o.strike, NpMean(path[i])), 0))]

\* MCPayoff: one read of price_path; path is the matrix it was given
MCPayoff(o, g) ==
    LET p == price_path(o, g)
    IN  IF p.err # "none" THEN [err |-> p.err, val |-> <<>>, rng |-> p.rng, path |-> <<>>]
        ELSE [err |-> "none", val |-> ArithmeticPayoff(o, p.val), rng |-> p.rng,
              path |-> p.val]

\* 1.96 on the grid
Z95 == Rnd(196 * Q, 100)

\* (mean, lower, upper) with the mean taken of v and the deviation of w
Interval(v, w, n) ==
    LET m == NpMean(v)
        h == NpDiv(FMul(Z95, NpStd(w)), NpSqrt(IntToFloat(n)))
    IN  <<m, FSub(m, h), FAdd(m, h)>>

\* value: MCPayoff is read twice, for the mean and for the deviation
value(o, g) ==
    LET p1 == MCPayoff(o, g)
        p2 == MCPayoff(o, p1.rng)
    IN  IF p1.err # "none"
        THEN [err |-> p1.err, val |-> <<>>, rng |-> p1.rng, paths |-> <<>>]
        ELSE IF p2.err # "none"
        THEN [err |-> p2.err, val |-> <<>>, rng |-> p2.rng, paths |-> <<p1.path>>]
        ELSE [err |-> "none", val |-> Interval(p1.val, p2.val, o.simulations),
              rng |-> p2.rng, paths |-> <<p1.path, p2.path>>]

\* np.exp((1/float(self.M)) * np.sum(np.log(path), 1)), then the payoff rule
GeometricPayoff(o, path) ==
    [i \in 1..Len(path) |->
       LET logs == [j \in 1..Len(path[i]) |-> NpLog(path[i][j])]
           avg == NpExp(FMul(PyDiv(One, IntToFloat(o.M)), NpSum(logs)))
       IN  IF o.option_type = "call"
           THEN FMul(o.discount, NpMaximum(FSub(avg, o.strike), 0))
           ELSE FMul(o.discount, NpMaximum(FSub(o.strike, avg), 0))]

\* self.MCPayoff + self.GeometricAsianOption - MCpayoff_geometric
ControlVariate_Added(arith, geo, geoPayoff) ==
    [i \in 1..Len(arith) |-> FAdd(FAdd(arith[i], geo), geoPayoff[i])]
ControlVariate(arith, geo, geoPayoff) ==
    [i \in 1..Len(arith) |-> FSub(FAdd(arith[i], geo), geoPayoff[i])]

\* value_with_control_variate: price_path is read for the geometric average,
\* then again inside MCPayoff
value_with_control_variate(o, g) ==
    LET p == price_path(o, g)
        a == MCPayoff(o, p.rng)
        c == GeometricAsianOption(o, a.rng)
    IN  IF p.err # "none"
        THEN [err |-> p.err, val |-> <<>>, rng |-> p.rng, paths |-> <<>>]
        ELSE IF a.err # "none"
        THEN [err |-> a.err, val |-> <<>>, rng |-> a.rng, paths |-> <<p.val>>]
        ELSE IF c.err # "none"
        THEN [err |-> c.err, val |-> <<>>, rng |-> c.rng, paths |-> <<p.val, a.path>>]
        ELSE LET cv == ControlVariate(a.val, c.val, GeometricPayoff(o, p.val))
             IN  [err |-> "none", val |-> Interval(cv, cv, o.simulations),
                  rng |-> c.rng, paths |-> <<p.val, a.path>>]

\* ------------------------------------------------------------------------
\* State
\* ------------------------------------------------------------------------

\* Two contracts may be alive at once; they share the generator.
Slots == {1, 2}

VARIABLES
    args,     \* args[c]: the nine arguments contract c is constructed from
    phase,    \* phase[c]: "absent", "new" (not yet constructed), "built", "failed"
    initErr,  \* initErr[c]: the exception __init__ raised ("none": none)
    obj,      \* obj[c]: the object the caller holds once phase[c] = "built"
    rng,      \* the state of numpy's global generator
    res,      \* res[c]: the last outcome of each property read on contract c
    firstPath,\* firstPath[c]: the outcome of the first read of price_path
    cvIn,     \* payoff vectors handed to the two estimators
    cvOut     \* the intervals the two estimators return for cvIn

vars == <<args, phase, initErr, obj, rng, res, firstPath, cvIn, cvOut>>

NoArgs ==
    [option_type |-> "", S0 |-> None, strike |-> None, T |-> None, M |-> None,
     r |-> None, div |-> None, sigma |-> None, simulations |-> None]

NotRead == [done |-> FALSE, err |-> "none", val |-> <<>>, paths |-> <<>>]
NoResults == [geo |-> NotRead, path |-> NotRead, value |-> NotRead, cv |-> NotRead]

Outcome(x) ==
    [done |-> TRUE, err |-> x.err, val |-> IF x.err = "none" THEN <<x.val>> ELSE <<>>,
     paths |-> <<>>]
OutcomeWithPaths(x) ==
    [done |-> TRUE, err |-> x.err, val |-> IF x.err = "none" THEN <<x.val>> ELSE <<>>,
     paths |-> x.paths]

NoEstimate == [done |-> FALSE, plain |-> <<>>, cv |-> <<>>]
NoPayoffs == [option_type |-> "", arith |-> <<>>, geoPayoff |-> <<>>, geo |-> 0]

\* the state shared by every specification before the arguments are chosen
Fresh(a) ==
    /\ args = a
    /\ phase = [c \in Slots |-> IF a[c] = NoArgs THEN "absent" ELSE "new"]
    /\ initErr = [c \in Slots |-> "none"]
    /\ obj = [c \in Slots |-> NoObject]
    /\ rng = 0
    /\ res = [c \in Slots |-> NoResults]
    /\ firstPath = [c \in Slots |-> NotRead]

\* ------------------------------------------------------------------------
\* Operations
\* ------------------------------------------------------------------------

\* AsianOptionMC(option_type, S0, strike, T, M, r, div, sigma, simulations)
Construct(c) ==
    /\ phase[c] = "new"
    /\ LET e == InitError(args[c])
       IN  /\ initErr' = [initErr EXCEPT ![c] = e]
           /\ phase' = [phase EXCEPT ![c] = IF e = "none" THEN "built" ELSE "failed"]
           /\ obj' = [obj EXCEPT ![c] = IF e = "none" THEN InitObject(args[c]) ELSE NoObject]
    /\ UNCHANGED <<args, rng, res, firstPath, cvIn, cvOut>>

\* c.GeometricAsianOption
ReadGeometricAsianOption(c) ==
    /\ phase[c] = "built"
    /\ LET x == GeometricAsianOption(obj[c], rng)
       IN  /\ res' = [res EXCEPT ![c].geo = Outcome(x)]
           /\ rng' = x.rng
    /\ UNCHANGED <<args, phase, initErr, obj, firstPath, cvIn, cvOut>>

\* c.price_path
ReadPricePath(c) ==
    /\ phase[c] = "built"
    /\ LET x == price_path(obj[c], rng)
       IN  /\ res' = [res EXCEPT ![c].path = Outcome(x)]
           /\ firstPath' = [firstPath EXCEPT
                              ![c] = IF firstPath[c].done THEN @ ELSE Outcome(x)]
           /\ rng' = x.rng
    /\ UNCHANGED <<args, phase, initErr, obj, cvIn, cvOut>>

\* c.value
ReadValue(c) ==
    /\ phase[c] = "built"
    /\ LET x == value(obj[c], rng)
       IN  /\ res' = [res EXCEPT ![c].value = OutcomeWithPaths(x)]
           /\ rng' = x.rng
    /\ UNCHANGED <<args, phase, initErr, obj, firstPath, cvIn, cvOut>>

\* c.value_with_control_variate
ReadValueWithControlVariate(c) ==
    /\ phase[c] = "built"
    /\ LET x == value_with_control_variate(obj[c], rng)
       IN  /\ res' = [res EXCEPT ![c].cv = OutcomeWithPaths(x)]
           /\ rng' = x.rng
    /\ UNCHANGED <<args, phase, initErr, obj, firstPath, cvIn, cvOut>>

\* other code of the process draws one number from the shared generator
OtherDraw ==
    /\ rng' = NextRng(rng)
    /\ UNCHANGED <<args, phase, initErr, obj, res, firstPath, cvIn, cvOut>>

\* lines 136-140 and 150-155 applied to given payoff vectors: the plain
\* interval of the arithmetic payoff and the interval of the corrected vector
Estimate ==
    /\ ~cvOut.done
    /\ cvIn.arith # <<>>
    /\ LET n == Len(cvIn.arith)
           cv == ControlVariate(cvIn.arith, cvIn.geo, cvIn.geoPayoff)
       IN  cvOut' = [done |-> TRUE,
                     plain |-> Interval(cvIn.arith, cvIn.arith, n),
                     cv |-> Interval(cv, cv, n)]
    /\ UNCHANGED <<args, phase, initErr, obj, rng, res, firstPath, cvIn>>

\* ------------------------------------------------------------------------
\* Specifications
\* ------------------------------------------------------------------------

\* largest number of time steps and of sample paths tried
MaxM == 2
MaxSims == 2
\* largest payoff (in whole units) and longest payoff vector tried
MaxPayoff == 2
MaxPaths == 3

\* Arguments of every kind the constructor may be handed.
AnyArgs ==
    [option_type : {"call", "put", "straddle", NonString},
     S0          : {Num(2 * Q), Num(0), Num(0 - Q), Str, NumStr(2 * Q)},
     strike      : {Num(2 * Q), Num(0), Num(0 - Q), Str},
     T           : {Num(Q), Num(0), Str},
     M           : {Num(Q), Num(2 * Q + Q \div 2), Num(0), Num(0 - Q), Str},
     r           : {Num(0), Num(0 - Q), Str},
     div         : {Num(0), Num(0 - Q), None},
     sigma       : {Num(Q), Num(0 - Q)},
     simulations : {Num(2 * Q), Num(0), Num(0 - Q), Str}]

\* Arguments that satisfy the data model.
ModelArgs ==
    [option_type : {"call", "put"},
     S0          : {Num(2 * Q)},
     strike      : {Num(2 * Q)},
     T           : {Num(Q)},
     M           : {Num(m * Q) : m \in 1..MaxM},
     r           : {Num(Q)},
     div         : {Num(0)},
     sigma       : {Num(Q)},
     simulations : {Num(n * Q) : n \in 1..MaxSims}]

\* The values at the edge of what the constructor's checks admit, the
\* largest finite float, and what it does not check at all.
Boundary ==
    {<<"S0", Num(0)>>, <<"S0", Num(FMax)>>, <<"strike", Num(0)>>,
     <<"r", Num(0)>>, <<"sigma", Num(0)>>, <<"M", Num(0 - Q)>>,
     <<"simulations", Num(0)>>, <<"simulations", Str>>}

\* Arguments the constructor accepts: the data model's, and those with one
\* argument at a boundary.
AcceptedArgs ==
    ModelArgs \cup {[a EXCEPT ![b[1]] = b[2]] : a \in ModelArgs, b \in Boundary}

\* Pairs of arguments that differ in div alone or in simulations alone.
PairArgs ==
    LET base == {a \in ModelArgs : a.M = Num(MaxM * Q) /\ a.simulations = Num(MaxSims * Q)}
    IN  {<<a, [a EXCEPT !.div = Num(Q)]>> : a \in base}
        \cup {<<a, [a EXCEPT !.simulations = Num(n * Q)]>> :
                 a \in base, n \in 1..(MaxSims - 1)}

\* One contract, constructed from arguments of any kind.
InitConstruct ==
    /\ \E a \in AnyArgs : Fresh([c \in Slots |-> IF c = 1 THEN a ELSE NoArgs])
    /\ cvIn = NoPayoffs
    /\ cvOut = NoEstimate
NextConstruct == \E c \in Slots : Construct(c)
SpecConstruct == InitConstruct /\ [][NextConstruct]_vars

\* One contract the constructor accepts, read in any order, any number of
\* times, with other draws from the generator in between.
Init ==
    /\ \E a \in AcceptedArgs : Fresh([c \in Slots |-> IF c = 1 THEN a ELSE NoArgs])
    /\ cvIn = NoPayoffs
    /\ cvOut = NoEstimate
Next ==
    \/ \E c \in Slots : Construct(c)
    \/ \E c \in Slots : ReadGeometricAsianOption(c)
    \/ \E c \in Slots : ReadPricePath(c)
    \/ \E c \in Slots : ReadValue(c)
    \/ \E c \in Slots : ReadValueWithControlVariate(c)
    \/ OtherDraw
Spec == Init /\ [][Next]_vars

\* Two contracts that differ in div alone or in simulations alone.
InitPair ==
    /\ \E p \in PairArgs : Fresh([c \in Slots |-> p[c]])
    /\ cvIn = NoPayoffs
    /\ cvOut = NoEstimate
SpecPair == InitPair /\ [][Next]_vars

\* The two estimators on payoff vectors of the same paths.  The geometric
\* average of a path never exceeds its arithmetic average, so a call's
\* geometric payoff is at most its arithmetic payoff, and a put's at least.
Payoffs == {p * Q : p \in 0..MaxPayoff}
PayoffVectors == UNION {[1..n -> Payoffs] : n \in 2..MaxPaths}
InitEstimators ==
    /\ Fresh([c \in Slots |-> NoArgs])
    /\ \E t \in {"call", "put"}, x \in PayoffVectors, y \in PayoffVectors, g \in Payoffs :
          /\ Len(x) = Len(y)
          /\ \A i \in 1..Len(x) : IF t = "call" THEN y[i] <= x[i] ELSE y[i] >= x[i]
          /\ cvIn = [option_type |-> t, arith |-> x, geoPayoff |-> y, geo |-> g]
    /\ cvOut = NoEstimate
NextEstimators == Estimate
SpecEstimators == InitEstimators /\ [][NextEstimators]_vars

\* ------------------------------------------------------------------------
\* Construction (SpecConstruct)
\* ------------------------------------------------------------------------

Constructed(c) == phase[c] \in {"built", "failed"}

IsNegative(x) == x.k = "num" /\ x.v < 0
NotPositive(x) == x.k = "num" /\ x.v <= 0
InRange(x) == x.k = "num" /\ x.v >= 0
Positive(x) == x.k = "num" /\ x.v > 0

\* the arguments satisfy the data model, those named in skip left aside
ValidExcept(a, skip) ==
    /\ a.option_type \in {"call", "put"}
    /\ \A n \in {"S0", "strike", "r", "div", "sigma"} \ skip : InRange(a[n])
    /\ \A n \in {"T", "M", "simulations"} \ skip : Positive(a[n])

\* what the error taxonomy names as invalid
Rejectable(a) ==
    \/ a.option_type \notin {"call", "put"}
    \/ \E n \in {"S0", "strike", "r", "div", "sigma"} : IsNegative(a[n])
    \/ NotPositive(a.T)

\* every attribute the constructor is to set is set
FullyInitialised(o) ==
    {"option_type", "S0", "strike", "T", "M", "r", "div", "sigma", "simulations",
     "time_unit", "discount"} \subseteq o.attrs

\* C1: constructing with an option_type outside {call, put} (a value that is
\* no string included), with a negative S0, strike, r, div or sigma, or with
\* T <= 0 fails with InvalidParameter (ValueError) and returns no object.
C1_RejectedWithInvalidParameter ==
    \A c \in Slots :
        Constructed(c) /\ Rejectable(args[c])
            => phase[c] = "failed" /\ initErr[c] = "ValueError"

\* C2: construction is atomic: it raises, or it returns an object with all
\* nine parameters, time_unit and discount set; and a numeric argument that
\* cannot be coerced (a non-numeric string, the other arguments being valid)
\* raises an error other than InvalidParameter.
C2_ConstructionAtomic ==
    \A c \in Slots :
        Constructed(c) =>
            /\ phase[c] = "built" => FullyInitialised(obj[c])
            /\ \A n \in {"S0", "strike", "T", "M", "r", "div", "sigma", "simulations"} :
                  args[c][n] = Str /\ ValidExcept(args[c], {n})
                      => phase[c] = "failed" /\ initErr[c] \notin {"none", "ValueError"}

\* C3: with the other arguments valid, M <= 0 or simulations <= 0 fails with
\* InvalidParameter, and no contract with M <= 0 or simulations <= 0 is
\* returned.
C3_IntegerBoundsEnforced ==
    \A c \in Slots :
        Constructed(c) =>
            /\ ( /\ ValidExcept(args[c], {"M", "simulations"})
                 /\ args[c].M.k = "num" /\ args[c].simulations.k = "num"
                 /\ (IntOf(args[c].M) <= 0 \/ IntOf(args[c].simulations) <= 0) )
                   => phase[c] = "failed" /\ initErr[c] = "ValueError"
            /\ phase[c] = "built" /\ FullyInitialised(obj[c])
                   => obj[c].M > 0 /\ obj[c].simulations > 0

\* ------------------------------------------------------------------------
\* Reading a contract (Spec)
\* ------------------------------------------------------------------------

Reads == {"geo", "path", "value", "cv"}

\* the contract satisfies the data model of its parameters
InDataModel(c) ==
    /\ phase[c] = "built"
    /\ FullyInitialised(obj[c])
    /\ obj[c].M > 0
    /\ obj[c].simulations > 0

\* the generator state a successful read of price_path leaves
AfterPath(c) == RngAfter(DefaultSeed % RngMod, obj[c].simulations * obj[c].M)

\* every path matrix a read of contract c has been seen to use
PathsSeen(c) ==
    {res[c].path.val[i] : i \in 1..Len(res[c].path.val)}
    \cup {firstPath[c].val[i] : i \in 1..Len(firstPath[c].val)}
    \cup {res[c].value.paths[i] : i \in 1..Len(res[c].value.paths)}
    \cup {res[c].cv.paths[i] : i \in 1..Len(res[c].cv.paths)}

\* C4: once construction has accepted a contract, GeometricAsianOption,
\* price_path, value and value_with_control_variate return without raising,
\* in any order and any number of times.
C4_NoErrorAfterConstruction ==
    \A c \in Slots : \A q \in Reads :
        phase[c] = "built" /\ res[c][q].done => res[c][q].err = "none"

\* C5: price_path is reproducible: whatever was read before and whatever
\* other code drew from the generator in between, every read of price_path
\* (by the caller, by value, by value_with_control_variate) gives the same
\* outcome as the first, and a matrix it returns has simulations rows of M
\* prices.
C5_PricePathReproducible ==
    \A c \in Slots :
        /\ res[c].path.done => res[c].path = firstPath[c]
        /\ Cardinality(PathsSeen(c)) <= 1
        /\ \A m \in PathsSeen(c) :
              /\ Len(m) = obj[c].simulations
              /\ \A i \in 1..Len(m) : Len(m[i]) = obj[c].M

\* C5 witness: price_path has returned a matrix to the caller and twice to
\* value, and other code has drawn from the generator since the last read.
C5_Witness ==
    \E c \in Slots :
        /\ InDataModel(c)
        /\ res[c].path.done /\ res[c].path.err = "none"
        /\ Len(res[c].value.paths) = 2
        /\ rng # AfterPath(c)

\* C6: the matrix value_with_control_variate takes the geometric payoff
\* from is the matrix MCPayoff takes the arithmetic payoff from, and it is
\* the matrix value uses, whichever of the two was read first.
C6_EstimatorsShareThePaths ==
    \A c \in Slots :
        /\ Len(res[c].cv.paths) = 2 => res[c].cv.paths[1] = res[c].cv.paths[2]
        /\ Len(res[c].value.paths) = 2 => res[c].value.paths[1] = res[c].value.paths[2]
        /\ Len(res[c].cv.paths) = 2 /\ Len(res[c].value.paths) = 2
              => res[c].cv.paths[1] = res[c].value.paths[1]

\* C6 witness: both estimators have returned an interval computed from
\* non-empty matrices.
C6_Witness ==
    \E c \in Slots :
        /\ InDataModel(c)
        /\ res[c].cv.done /\ res[c].cv.err = "none"
        /\ res[c].value.done /\ res[c].value.err = "none"
        /\ Len(res[c].cv.paths) = 2 /\ Len(res[c].value.paths) = 2

\* C8: for a contract of the data model (simulations >= 1), value returns
\* (mean, lower95, upper95) with lower95 <= mean <= upper95, the two bounds
\* at the same distance from the mean.
C8_MeanWithinItsBounds ==
    \A c \in Slots :
        InDataModel(c) /\ res[c].value.done /\ res[c].value.err = "none" =>
            LET t == res[c].value.val[1]
            IN  /\ FLe(t[2], t[1])
                /\ FLe(t[1], t[3])
                /\ FSub(t[1], t[2]) = FSub(t[3], t[1])

\* ------------------------------------------------------------------------
\* The two estimators (SpecEstimators)
\* ------------------------------------------------------------------------

RECURSIVE DotTo(_, _, _)
DotTo(x, y, n) == IF n = 0 THEN 0 ELSE DotTo(x, y, n - 1) + x[n] * y[n]
\* n^2 times the covariance of two payoff vectors of length n, exactly
Cov2(x, y) ==
    LET n == Len(x)
        ones == [i \in 1..n |-> 1]
    IN  n * DotTo(x, y, n) - DotTo(x, ones, n) * DotTo(y, ones, n)
\* n^2 times the variance
Var2(x) == Cov2(x, x)

\* the correlation coefficient of the two vectors is defined and positive
PositivelyCorrelated(x, y) == Var2(x) > 0 /\ Var2(y) > 0 /\ Cov2(x, y) > 0

\* upper95 - lower95 of a returned interval
Width(t) == FSub(t[3], t[2])

\* C7 as stated: whenever the arithmetic and the geometric payoffs are
\* positively correlated, the interval of the control-variate estimator is
\* no wider than the interval of the plain estimator.
C7_NarrowerWhenPositivelyCorrelated ==
    cvOut.done /\ PositivelyCorrelated(cvIn.arith, cvIn.geoPayoff)
        => FLe(Width(cvOut.cv), Width(cvOut.plain))

\* C7 as amended: the interval of the control-variate estimator is no wider
\* than the plain one whenever twice the covariance of the two payoffs is at
\* least the variance of the geometric payoff.
C7_NarrowerWhenCovarianceDominates ==
    cvOut.done /\ 2 * Cov2(cvIn.arith, cvIn.geoPayoff) >= Var2(cvIn.geoPayoff)
        => FLe(Width(cvOut.cv), Width(cvOut.plain))

\* C7 witness: positively correlated payoffs whose covariance dominates, and
\* a control-variate interval strictly narrower than the plain one.
C7_Witness ==
    /\ cvOut.done
    /\ PositivelyCorrelated(cvIn.arith, cvIn.geoPayoff)
    /\ 2 * Cov2(cvIn.arith, cvIn.geoPayoff) >= Var2(cvIn.geoPayoff)
    /\ FLt(Width(cvOut.cv), Width(cvOut.plain))

\* ------------------------------------------------------------------------
\* Two contracts (SpecPair)
\* ------------------------------------------------------------------------

\* the two contracts were constructed from arguments that differ in n alone
DifferOnlyIn(n) ==
    /\ phase[1] = "built" /\ phase[2] = "built"
    /\ args[1][n] # args[2][n]
    /\ \A k \in DOMAIN args[1] : k # n => args[1][k] = args[2][k]

\* C9: div is accepted but has no effect: two contracts that differ only in
\* a valid div get identical outcomes from GeometricAsianOption, price_path,
\* value and value_with_control_variate.
C9_DividendHasNoEffect ==
    DifferOnlyIn("div") /\ InRange(args[1].div) /\ InRange(args[2].div) =>
        /\ obj[1].div # obj[2].div
        /\ \A q \in Reads :
              res[1][q].done /\ res[2][q].done => res[1][q] = res[2][q]

\* C9 witness: two contracts with different dividend yields, each read
\* through all four properties.
C9_Witness ==
    /\ DifferOnlyIn("div")
    /\ \A c \in Slots : \A q \in Reads : res[c][q].done /\ res[c][q].err = "none"

\* C10: GeometricAsianOption leaves the generator as it found it, and two
\* contracts that differ only in simulations get the same value from it,
\* whatever was read, and whatever was drawn, before either read.
C10_GeometricIndependentOfSimulations ==
    [][\A c \in Slots :
          ReadGeometricAsianOption(c) =>
              /\ rng' = rng
              /\ DifferOnlyIn("simulations") /\ res[3 - c].geo.done
                    => res'[c].geo = res[3 - c].geo]_vars

\* C10 witness: two contracts with different simulation counts have both
\* returned a geometric value, the generator having been used in between.
C10_Witness ==
    /\ DifferOnlyIn("simulations")
    /\ res[1].geo.done /\ res[1].geo.err = "none"
    /\ res[2].geo.done /\ res[2].geo.err = "none"
    /\ res[1].path.done
    /\ rng # AfterPath(1)

=============================================================================
